---- MODULE Spec2Model ----
(***************************************************************************)
(* Model of redisds.py: RedisList, RedisSet and RedisDict, three adapters  *)
(* that present a remote store's list, set and hash as Python collections. *)
(* Every adapter method is a sequence of store commands; the store is the  *)
(* only state.  Python values are records [t, v] (t the Python type), so   *)
(* that bytes returned by the store and str produced by DECODER differ.    *)
(***************************************************************************)
EXTENDS Integers, Sequences, FiniteSets, TLC

VARIABLES
    store,   \* key -> entry held by the remote store
    last,    \* the last adapter call: op, args, exception kind, return value, store before
    proc     \* per caller: position and locals of a running insert (concurrent callers)

vars == <<store, last, proc>>

----------------------------------------------------------------------------
(* Bounds of the model *)

MaxLen == 3        \* longest list the sequential callers build
MaxIdx == 3        \* indices range over -MaxIdx..MaxIdx
MaxStart == 1      \* slice starts range over -MaxStart..MaxStart
MaxArgs == 1       \* most values passed to one append / extend
MaxOthers == 2     \* most operands passed to one set-algebra call
MaxRaceLen == 3    \* longest initial list of the concurrent-insert scenario
MaxBulkLen == 4    \* longest list the in-place repeat / concatenate callers build
MaxRep == 3        \* repeat counts range over -1..MaxRep

----------------------------------------------------------------------------
(* Python values *)

PyStr(s) == [t |-> "str", v |-> s]
PyInt(n) == [t |-> "int", v |-> n]
PyBytes(s) == [t |-> "bytes", v |-> s]
PyBool(b) == [t |-> "bool", v |-> b]
PyList(q) == [t |-> "list", v |-> q]
PySet(s) == [t |-> "set", v |-> s]
PyNone == [t |-> "None", v |-> ""]
PySlice(start, stop, step) == [t |-> "slice", v |-> <<start, stop, step>>]
\* a dict of bytes to bytes, as a set of <<key, value>> pairs
PyDict(h) == [t |-> "dict", v |-> h]
\* an adapter object: its class and the attributes __init__ sets (key; c is the one connection)
PyObj(cls, key) == [t |-> cls, v |-> key]

\* bool(x) for the values the code tests
Truthy(x) ==
    CASE x.t = "None" -> FALSE
      [] x.t \in {"bytes", "str"} -> x.v # ""
      [] x.t = "int" -> x.v # 0
      [] x.t = "bool" -> x.v
      [] x.t = "list" -> x.v # <<>>
      [] x.t = "set" -> x.v # {}
      [] OTHER -> TRUE

\* repr of a str: double quotes when it holds a single quote and no double quote,
\* single quotes otherwise, with backslashes, the enclosing quote and control
\* characters escaped
HasChar(s, c) == \E i \in 1..Len(s) : SubSeq(s, i, i) = c

RECURSIVE EscapedFrom(_, _, _)
EscapedFrom(s, i, single) ==
    IF i > Len(s) THEN ""
    ELSE LET c == SubSeq(s, i, i)
             e == IF c = "\\" THEN "\\\\"
                  ELSE IF c = "'" /\ single THEN "\\'"
                  ELSE IF c = "\n" THEN "\\n"
                  ELSE IF c = "\t" THEN "\\t"
                  ELSE IF c = "\r" THEN "\\r"
                  ELSE IF c = "\f" THEN "\\x0c"
                  ELSE c
         IN e \o EscapedFrom(s, i + 1, single)

ReprStr(s) ==
    IF HasChar(s, "'") /\ ~HasChar(s, "\"")
    THEN "\"" \o EscapedFrom(s, 1, FALSE) \o "\""
    ELSE "'" \o EscapedFrom(s, 1, TRUE) \o "'"

\* str(x) of a str, a bytes, an int or a list of them
RECURSIVE PyRepr(_)
RECURSIVE ReprItems(_)
ReprItems(q) ==
    IF q = <<>> THEN ""
    ELSE IF Len(q) = 1 THEN PyRepr(q[1])
    ELSE PyRepr(q[1]) \o ", " \o ReprItems(Tail(q))
PyRepr(x) ==
    CASE x.t = "int" -> ToString(x.v)
      [] x.t = "str" -> ReprStr(x.v)
      [] x.t = "bytes" -> "b" \o ReprStr(x.v)
      [] x.t = "list" -> "[" \o ReprItems(x.v) \o "]"

\* the bytes the client sends for an argument: str as utf-8, int as its decimal text;
\* a client that accepts any other object sends str(object)
Encode(x) ==
    CASE x.t = "int" -> ToString(x.v)
      [] x.t = "list" -> PyRepr(x)
      [] OTHER -> x.v

\* DECODER = lambda byte: byte.decode("utf-8")
DECODER(b) == PyStr(b.v)

Ok(st, r) == [store |-> st, exc |-> "ok", ret |-> r]
Raise(st, e) == [store |-> st, exc |-> e, ret |-> PyNone]

\* a reply of the store client: the store after the command and the response
Reply(st, r) == [store |-> st, resp |-> r]
ResponseError(msg) == [t |-> "ResponseError", v |-> msg]
IsErr(r) == r.resp.t = "ResponseError"

----------------------------------------------------------------------------
(* The remote store: the commands the adapters send *)

Absent == [kind |-> "none", l |-> <<>>, s |-> {}, h |-> {}]
ListEntry(q) == IF q = <<>> THEN Absent ELSE [kind |-> "list", l |-> q, s |-> {}, h |-> {}]
SetEntry(s) == IF s = {} THEN Absent ELSE [kind |-> "set", l |-> <<>>, s |-> s, h |-> {}]
HashEntry(h) == IF h = {} THEN Absent ELSE [kind |-> "hash", l |-> <<>>, s |-> {}, h |-> h]

Entry(st, k) == IF k \in DOMAIN st THEN st[k] ELSE Absent
Put(st, k, e) == [x \in DOMAIN st \cup {k} |-> IF x = k THEN e ELSE st[x]]
Holds(st, k, kind) == Entry(st, k).kind \in {"none", kind}
WrongType(st) == Reply(st, ResponseError("WRONGTYPE"))

\* the inclusive range [start, stop] of a list of length n, as LRANGE and LTRIM read it
RangeOf(q, start, stop) ==
    LET n == Len(q)
        s0 == IF start < 0 THEN n + start ELSE start
        s == IF s0 < 0 THEN 0 ELSE s0
        e0 == IF stop < 0 THEN n + stop ELSE stop
        e == IF e0 >= n THEN n - 1 ELSE e0
    IN IF s > e \/ s >= n THEN <<>> ELSE SubSeq(q, s + 1, e + 1)

RPUSH(st, k, vals) ==
    IF vals = <<>> THEN Reply(st, ResponseError("wrong number of arguments"))
    ELSE IF ~Holds(st, k, "list") THEN WrongType(st)
    ELSE LET q == Entry(st, k).l \o vals
         IN Reply(Put(st, k, ListEntry(q)), PyInt(Len(q)))

LINDEX(st, k, i) ==
    IF ~Holds(st, k, "list") THEN WrongType(st)
    ELSE LET q == Entry(st, k).l
             j == IF i < 0 THEN Len(q) + i ELSE i
         IN IF j < 0 \/ j >= Len(q) THEN Reply(st, PyNone) ELSE Reply(st, PyBytes(q[j + 1]))

LRANGE(st, k, start, stop) ==
    IF ~Holds(st, k, "list") THEN WrongType(st)
    ELSE LET r == RangeOf(Entry(st, k).l, start, stop)
         IN Reply(st, PyList([i \in 1..Len(r) |-> PyBytes(r[i])]))

LTRIM(st, k, start, stop) ==
    IF ~Holds(st, k, "list") THEN WrongType(st)
    ELSE Reply(Put(st, k, ListEntry(RangeOf(Entry(st, k).l, start, stop))), PyBool(TRUE))

LSET(st, k, i, val) ==
    IF ~Holds(st, k, "list") THEN WrongType(st)
    ELSE LET q == Entry(st, k).l
             j == IF i < 0 THEN Len(q) + i ELSE i
         IN IF q = <<>> THEN Reply(st, ResponseError("no such key"))
            ELSE IF j < 0 \/ j >= Len(q) THEN Reply(st, ResponseError("index out of range"))
            ELSE Reply(Put(st, k, ListEntry([q EXCEPT ![j + 1] = val])), PyBool(TRUE))

\* the list without the first occurrence of val
RECURSIVE RemoveFirst(_, _)
RemoveFirst(q, val) ==
    IF q = <<>> THEN <<>>
    ELSE IF Head(q) = val THEN Tail(q)
    ELSE <<Head(q)>> \o RemoveFirst(Tail(q), val)

\* LREM key 1 val
LREM1(st, k, val) ==
    IF ~Holds(st, k, "list") THEN WrongType(st)
    ELSE LET q == Entry(st, k).l
             r == RemoveFirst(q, val)
         IN Reply(Put(st, k, ListEntry(r)), PyInt(Len(q) - Len(r)))

LLEN(st, k) ==
    IF ~Holds(st, k, "list") THEN WrongType(st)
    ELSE Reply(st, PyInt(Len(Entry(st, k).l)))

LPOP(st, k) ==
    IF ~Holds(st, k, "list") THEN WrongType(st)
    ELSE LET q == Entry(st, k).l
         IN IF q = <<>> THEN Reply(st, PyNone)
            ELSE Reply(Put(st, k, ListEntry(Tail(q))), PyBytes(Head(q)))

RPOP(st, k) ==
    IF ~Holds(st, k, "list") THEN WrongType(st)
    ELSE LET q == Entry(st, k).l
         IN IF q = <<>> THEN Reply(st, PyNone)
            ELSE Reply(Put(st, k, ListEntry(SubSeq(q, 1, Len(q) - 1))), PyBytes(q[Len(q)]))

DEL(st, k) ==
    Reply(Put(st, k, Absent), PyInt(IF Entry(st, k).kind = "none" THEN 0 ELSE 1))

SADD(st, k, val) ==
    IF ~Holds(st, k, "set") THEN WrongType(st)
    ELSE LET m == Entry(st, k).s
         IN Reply(Put(st, k, SetEntry(m \cup {val})), PyInt(IF val \in m THEN 0 ELSE 1))

SREM(st, k, val) ==
    IF ~Holds(st, k, "set") THEN WrongType(st)
    ELSE LET m == Entry(st, k).s
         IN Reply(Put(st, k, SetEntry(m \ {val})), PyInt(IF val \in m THEN 1 ELSE 0))

\* chosen is the member the store picks; an empty set answers None
SPOP(st, k, chosen) ==
    IF ~Holds(st, k, "set") THEN WrongType(st)
    ELSE LET m == Entry(st, k).s
         IN IF m = {} THEN Reply(st, PyNone)
            ELSE Reply(Put(st, k, SetEntry(m \ {chosen})), PyBytes(chosen))

SISMEMBER(st, k, val) ==
    IF ~Holds(st, k, "set") THEN WrongType(st)
    ELSE Reply(st, PyBool(val \in Entry(st, k).s))

SMEMBERS(st, k) ==
    IF ~Holds(st, k, "set") THEN WrongType(st)
    ELSE Reply(st, PySet({PyBytes(x) : x \in Entry(st, k).s}))

SCARD(st, k) ==
    IF ~Holds(st, k, "set") THEN WrongType(st)
    ELSE Reply(st, PyInt(Cardinality(Entry(st, k).s)))

AllSets(st, keys) == \A i \in 1..Len(keys) : Holds(st, keys[i], "set")
UnionOf(st, keys) == UNION {Entry(st, keys[i]).s : i \in 1..Len(keys)}
InterOf(st, keys) == {x \in Entry(st, keys[1]).s : \A i \in 1..Len(keys) : x \in Entry(st, keys[i]).s}
DiffOf(st, keys) == {x \in Entry(st, keys[1]).s : \A i \in 2..Len(keys) : x \notin Entry(st, keys[i]).s}

\* the three store commands: the result replaces whatever dest held
StoreResult(st, dest, keys, m) ==
    IF keys = <<>> THEN Reply(st, ResponseError("wrong number of arguments"))
    ELSE IF ~AllSets(st, keys) THEN WrongType(st)
    ELSE Reply(Put(st, dest, SetEntry(m)), PyInt(Cardinality(m)))

SUNIONSTORE(st, dest, keys) == StoreResult(st, dest, keys, UnionOf(st, keys))
SINTERSTORE(st, dest, keys) == StoreResult(st, dest, keys, IF keys = <<>> THEN {} ELSE InterOf(st, keys))
SDIFFSTORE(st, dest, keys) == StoreResult(st, dest, keys, IF keys = <<>> THEN {} ELSE DiffOf(st, keys))

SINTER(st, keys) ==
    IF keys = <<>> THEN Reply(st, ResponseError("wrong number of arguments"))
    ELSE IF ~AllSets(st, keys) THEN WrongType(st)
    ELSE Reply(st, PySet({PyBytes(x) : x \in InterOf(st, keys)}))

\* a hash is a set of <<field, value>> pairs with one pair per field
HasField(h, f) == \E p \in h : p[1] = f
FieldValue(h, f) == (CHOOSE p \in h : p[1] = f)[2]

HGET(st, k, f) ==
    IF ~Holds(st, k, "hash") THEN WrongType(st)
    ELSE LET h == Entry(st, k).h
         IN IF HasField(h, f) THEN Reply(st, PyBytes(FieldValue(h, f))) ELSE Reply(st, PyNone)

HSET(st, k, f, val) ==
    IF ~Holds(st, k, "hash") THEN WrongType(st)
    ELSE LET h == Entry(st, k).h
         IN Reply(Put(st, k, HashEntry({p \in h : p[1] # f} \cup {<<f, val>>})),
                  PyInt(IF HasField(h, f) THEN 0 ELSE 1))

HDEL(st, k, f) ==
    IF ~Holds(st, k, "hash") THEN WrongType(st)
    ELSE LET h == Entry(st, k).h
         IN Reply(Put(st, k, HashEntry({p \in h : p[1] # f})),
                  PyInt(IF HasField(h, f) THEN 1 ELSE 0))

HLEN(st, k) ==
    IF ~Holds(st, k, "hash") THEN WrongType(st)
    ELSE Reply(st, PyInt(Cardinality(Entry(st, k).h)))

\* the reply is a dict of bytes fields to bytes values
HGETALL(st, k) ==
    IF ~Holds(st, k, "hash") THEN WrongType(st)
    ELSE Reply(st, PyDict(Entry(st, k).h))

----------------------------------------------------------------------------
(* Names and attributes the method bodies look up *)

\* names bound at module level (imports, lambdas, classes, raise_if_of_type)
ModuleNames ==
    {"Iterable", "abc", "string", "random", "ResponseError", "uuid", "DECODER",
     "CHARACTERS", "IS_ITERABLE", "RedisDSBase", "RedisList", "RedisObjectList",
     "RedisSet", "RedisDict", "raise_if_of_type"}

\* a name resolves when it is a local of the function or a module-level name
NameBound(name, locals) == name \in locals \cup ModuleNames

\* the attributes RedisDSBase.__init__ sets on an adapter
InstanceAttrs == {"key", "c"}

\* the methods the adapter classes define or inherit from collections.abc
ClassAttrs ==
    {"append", "extend", "remove", "_clear", "sliced", "copy", "count", "reverse", "sort",
     "insert", "add", "discard", "clear", "difference", "difference_update", "intersection",
     "intersection_update", "isdisjoint", "issubset", "issuperset", "pop", "symmetric_difference",
     "symmetric_difference_update", "union", "update", "keys", "values", "items", "get",
     "fromkeys", "popitem", "setdefault", "_fetch_dict", "index"}

HasAttr(name) == name \in InstanceAttrs \cup ClassAttrs

\* RedisDSBase.__init__(self, connection, key), reached through cls(connection, key)
RedisDSBase___init__(st, cls, key) ==
    IF key.t # "str" THEN Raise(st, "TypeError") ELSE Ok(st, PyObj(cls, key.v))

----------------------------------------------------------------------------
(* RedisList *)

EncodeAll(values) == [i \in 1..Len(values) |-> Encode(values[i])]

RedisList_append(st, k, values) ==
    LET r == RPUSH(st, k, EncodeAll(values))
    IN IF IsErr(r) THEN Raise(r.store, "ResponseError") ELSE Ok(r.store, PyNone)

RedisList_extend(st, k, iterable) ==
    LET r == RPUSH(st, k, EncodeAll(iterable.v))
    IN IF IsErr(r) THEN Raise(r.store, "ResponseError") ELSE Ok(r.store, PyNone)

RedisList_remove(st, k, val) ==
    LET r == LREM1(st, k, Encode(val))
    IN IF IsErr(r) THEN Raise(r.store, "ResponseError")
       ELSE IF r.resp = PyInt(0) THEN Raise(r.store, "ValueError")
       ELSE Ok(r.store, PyNone)

RedisList__clear(st, k) ==
    LET r == DEL(st, k) IN Ok(r.store, PyNone)

RedisList_sliced(st, k, slice_obj) ==
    LET start == slice_obj.v[1]
        end == slice_obj.v[2]
        step == slice_obj.v[3]
    IN IF step # PyNone THEN Raise(st, "NotImplementedError")
       ELSE LET r == LRANGE(st, k, start.v, end.v)
            IN IF IsErr(r) THEN Raise(r.store, "ResponseError")
               ELSE Ok(r.store, PyList([i \in 1..Len(r.resp.v) |-> DECODER(r.resp.v[i])]))

\* variant: an absent element reported with the mapping's error kind
RedisList___getitem__KeyError(st, k, index) ==
    IF index.t = "int"
    THEN LET r == LINDEX(st, k, index.v)
         IN IF IsErr(r) THEN Raise(r.store, "ResponseError")
            ELSE IF ~Truthy(r.resp) THEN Raise(r.store, "KeyError")
            ELSE Ok(r.store, DECODER(r.resp))
    ELSE Ok(st, PyNone)

RedisList___getitem__(st, k, index) ==
    IF index.t = "int"
    THEN LET r == LINDEX(st, k, index.v)
         IN IF IsErr(r) THEN Raise(r.store, "ResponseError")
            ELSE IF ~Truthy(r.resp) THEN Raise(r.store, "IndexError")
            ELSE Ok(r.store, DECODER(r.resp))
    ELSE IF index.t = "slice" THEN RedisList_sliced(st, k, index)
    ELSE Ok(st, PyNone)

\* variant: the assignment is acknowledged and the slot is left as it was
RedisList___setitem__Unsent(st, k, i, val) == Ok(st, PyNone)

RedisList___setitem__(st, k, i, val) ==
    LET r == LSET(st, k, i, Encode(val))
    IN IF IsErr(r) THEN Raise(r.store, "IndexError") ELSE Ok(r.store, PyNone)

\* the branch __delitem__ takes for an index
DelItemPath(index) ==
    IF index = 0 THEN "lpop" ELSE IF index = -1 THEN "rpop" ELSE "sentinel"

\* variant: the element at index is read and its first occurrence removed
RedisList___delitem__ByValue(st, k, index, uid) ==
    LET r == LINDEX(st, k, index)
    IN IF IsErr(r) \/ r.resp = PyNone THEN Raise(r.store, "IndexError")
       ELSE LET d == LREM1(st, k, r.resp.v) IN Ok(d.store, PyNone)

\* uid is the value uuid.uuid1().int produced for this call
RedisList___delitem__(st, k, index, uid) ==
    IF DelItemPath(index) = "lpop"
    THEN LET r == LPOP(st, k)
         IN IF IsErr(r) THEN Raise(r.store, "ResponseError") ELSE Ok(r.store, PyNone)
    ELSE IF DelItemPath(index) = "rpop"
    THEN LET r == RPOP(st, k)
         IN IF IsErr(r) THEN Raise(r.store, "ResponseError") ELSE Ok(r.store, PyNone)
    ELSE LET s == RedisList___setitem__(st, k, index, uid)
         IN IF s.exc # "ok" THEN s ELSE RedisList_remove(s.store, k, uid)

RedisList___len__(st, k) ==
    LET r == LLEN(st, k)
    IN IF IsErr(r) THEN Raise(r.store, "ResponseError") ELSE Ok(r.store, r.resp)

\* list(self): the inherited iteration calls self[0], self[1], ... until IndexError
RECURSIVE IterFrom(_, _, _, _)
IterFrom(st, k, i, acc) ==
    LET r == RedisList___getitem__(st, k, PyInt(i))
    IN IF r.exc = "IndexError" THEN Ok(st, PyList(acc))
       ELSE IF r.exc # "ok" THEN r
       ELSE IterFrom(st, k, i + 1, Append(acc, r.ret))

ListOfSelf(st, k) ==
    LET n == RedisList___len__(st, k)
    IN IF n.exc # "ok" THEN n ELSE IterFrom(st, k, 0, <<>>)

\* full_list[i:]
SliceFrom(q, i) ==
    LET n == Len(q)
        s0 == IF i < 0 THEN n + i ELSE i
        s == IF s0 < 0 THEN 0 ELSE IF s0 > n THEN n ELSE s0
    IN SubSeq(q, s + 1, n)

\* raise_if_of_type(v, typ): isinstance(v, typ), for typ int and Iterable; a bool
\* is an int, and str, bytes, list, set, dict and the three adapters are Iterable
IsOfType(x, typ) ==
    IF typ = "Iterable"
    THEN x.t \in {"list", "str", "bytes", "set", "dict", "RedisList", "RedisSet", "RedisDict"}
    ELSE IF typ = "int" THEN x.t \in {"int", "bool"}
    ELSE x.t = typ

\* the number an int or a bool compares as
IntOf(x) == IF x.t = "bool" THEN (IF x.v THEN 1 ELSE 0) ELSE x.v

\* for i in range(0, value - 1): self.extend(current), current being self
RECURSIVE ImulLoop(_, _, _)
ImulLoop(st, k, times) ==
    IF times <= 0 THEN Ok(st, PyNone)
    ELSE LET current == ListOfSelf(st, k)
         IN IF current.exc # "ok" THEN current
            ELSE LET e == RedisList_extend(st, k, current.ret)
                 IN IF e.exc # "ok" THEN e ELSE ImulLoop(e.store, k, times - 1)

RedisList___imul__(st, k, value) ==
    IF ~IsOfType(value, "int") THEN Raise(st, "TypeError")
    ELSE LET cleared == IF IntOf(value) < 1 THEN RedisList__clear(st, k).store ELSE st
         IN IF IntOf(value) > 1 THEN ImulLoop(cleared, k, IntOf(value) - 1)
            ELSE Ok(cleared, PyNone)

\* the three remote steps of insert, each inside the try block
\* variant: the kept range written with a one-based start
InsertTrimOneBased(st, k, i) == LTRIM(st, k, 1, i - 1)

InsertTrim(st, k, i) == LTRIM(st, k, 0, i - 1)
InsertAppend(st, k, val) == RedisList_append(st, k, <<val>>)
InsertExtend(st, k, post) == RedisList_extend(st, k, PyList(post))

\* a command the client could not complete: it raises and nothing is applied
Faults == {"none", "trim", "append", "extend"}
UnderFault(fault, step, st, r) == IF fault = step THEN Raise(st, "ConnectionError") ELSE r

\* variant: a failed step puts the list back as it was read
RedisList_insertRollingBack(st, k, i, val, fault) ==
    LET full_list == ListOfSelf(st, k)
    IN IF full_list.exc # "ok" THEN full_list
       ELSE LET post == SliceFrom(full_list.ret.v, i)
                res == InsertTrim(st, k, i)
                a == InsertAppend(res.store, k, val)
                e == InsertExtend(a.store, k, post)
            IN IF fault # "none" \/ IsErr(res) \/ a.exc # "ok" \/ e.exc # "ok"
               THEN Raise(st, "ValueError")
               ELSE Ok(e.store, PyNone)

\* insert with the step named by fault failing in the client; list(self) is read
\* before the try block, every later step is inside it
RedisList_insertUnder(st, k, i, val, fault) ==
    LET full_list == ListOfSelf(st, k)
    IN IF full_list.exc # "ok" THEN full_list
       ELSE LET post == SliceFrom(full_list.ret.v, i)
                res == InsertTrim(st, k, i)
            IN IF fault = "trim" THEN Raise(st, "ValueError")
               ELSE IF IsErr(res) THEN Raise(res.store, "ValueError")
               ELSE LET a == UnderFault(fault, "append", res.store, InsertAppend(res.store, k, val))
                    IN IF a.exc # "ok" THEN Raise(a.store, "ValueError")
                       ELSE LET e == UnderFault(fault, "extend", a.store,
                                                InsertExtend(a.store, k, post))
                            IN IF e.exc # "ok" THEN Raise(e.store, "ValueError")
                               ELSE Ok(e.store, PyNone)

RedisList_insert(st, k, i, val) == RedisList_insertUnder(st, k, i, val, "none")

Reversed(q) == [i \in 1..Len(q) |-> q[Len(q) + 1 - i]]

\* current = list(self); self._clear(); current.reverse(); self.extend(current)
RedisList_reverse(st, k) ==
    LET current == ListOfSelf(st, k)
    IN IF current.exc # "ok" THEN current
       ELSE RedisList_extend(RedisList__clear(st, k).store, k, PyList(Reversed(current.ret.v)))

\* the inherited pop(index): v = self[index]; del self[index]; return v
RedisList_pop(st, k, index, uid) ==
    LET v == RedisList___getitem__(st, k, PyInt(index))
    IN IF v.exc # "ok" THEN v
       ELSE LET d == RedisList___delitem__(v.store, k, index, uid)
            IN IF d.exc # "ok" THEN d ELSE Ok(d.store, v.ret)

\* the inherited clear(): self.pop() until it raises IndexError
RECURSIVE RedisList_clear(_, _, _)
RedisList_clear(st, k, uid) ==
    LET v == RedisList_pop(st, k, 0 - 1, uid)
    IN IF v.exc = "IndexError" THEN Ok(v.store, PyNone)
       ELSE IF v.exc # "ok" THEN v
       ELSE RedisList_clear(v.store, k, uid)

----------------------------------------------------------------------------
(* RedisSet *)

IsInstance(o, cls) == o.t = cls

\* [o.key for o in others if isinstance(o, cls)]
KeysOfInstances(others, cls) ==
    LET same == SelectSeq(others, LAMBDA o : IsInstance(o, cls))
    IN [i \in 1..Len(same) |-> same[i].v]

FromReply(r, ret) == IF IsErr(r) THEN Raise(r.store, "ResponseError") ELSE Ok(r.store, ret)

RedisSet___contains__(st, self, element) ==
    LET r == SISMEMBER(st, self.v, Encode(element)) IN FromReply(r, r.resp)

\* set(self): the members, each through DECODER
RedisSet___iter__(st, self) ==
    LET r == SMEMBERS(st, self.v)
    IN FromReply(r, PySet({DECODER(b) : b \in r.resp.v}))

RedisSet___len__(st, self) ==
    LET r == SCARD(st, self.v) IN FromReply(r, r.resp)

RedisSet_add(st, self, element) ==
    FromReply(SADD(st, self.v, Encode(element)), PyNone)

RedisSet_discard(st, self, element) ==
    FromReply(SREM(st, self.v, Encode(element)), PyNone)

\* variant: remove that does not look at the store's reply
RedisSet_removeSilently(st, self, element) ==
    FromReply(SREM(st, self.v, Encode(element)), PyNone)

RedisSet_remove(st, self, element) ==
    LET r == SREM(st, self.v, Encode(element))
    IN IF IsErr(r) THEN Raise(r.store, "ResponseError")
       ELSE IF r.resp = PyInt(0) THEN Raise(r.store, "KeyError")
       ELSE Ok(r.store, PyNone)

\* chosen is the member SPOP picks
RedisSet_pop(st, self, chosen) ==
    LET r == SPOP(st, self.v, chosen) IN FromReply(r, r.resp)

RedisSet_clear(st, self) ==
    FromReply(DEL(st, self.v), PyNone)

\* key is the value uuid.uuid1().int produced for this call; self.con is looked
\* up before cls(...) is called
RedisSet_copy(st, self, key) ==
    IF ~HasAttr("con") THEN Raise(st, "AttributeError")
    ELSE LET other == RedisDSBase___init__(st, self.t, key)
         IN IF other.exc # "ok" THEN other
            ELSE FromReply(SUNIONSTORE(st, Encode(key), <<self.v>>), other.ret)

RedisSet_difference(st, self, others, key) ==
    LET cls == self.t
        other_keys == KeysOfInstances(others, cls)
    IN IF ~HasAttr("con") THEN Raise(st, "AttributeError")
       ELSE LET other == RedisDSBase___init__(st, cls, key)
            IN IF other.exc # "ok" THEN other
               ELSE FromReply(SDIFFSTORE(st, Encode(key), <<self.v>> \o other_keys), other.ret)

\* the name other is read on line 243 and is bound nowhere
RedisSet_difference_update(st, self, others) ==
    LET cls == self.t
        other_keys == KeysOfInstances(others, cls)
    IN IF ~NameBound("other", {"self", "others", "cls", "other_keys"})
       THEN Raise(st, "NameError")
       ELSE FromReply(SDIFFSTORE(st, self.v, other_keys), PyNone)

RedisSet_intersection(st, self, others, key) ==
    LET cls == self.t
        other_keys == KeysOfInstances(others, cls)
    IN IF ~HasAttr("con") THEN Raise(st, "AttributeError")
       ELSE LET other == RedisDSBase___init__(st, cls, key)
            IN IF other.exc # "ok" THEN other
               ELSE FromReply(SINTERSTORE(st, Encode(key), <<self.v>> \o other_keys), other.ret)

\* the name other is read on line 258 and is bound nowhere
RedisSet_intersection_update(st, self, others) ==
    LET cls == self.t
        other_keys == KeysOfInstances(others, cls)
    IN IF ~NameBound("other", {"self", "others", "cls", "other_keys"})
       THEN Raise(st, "NameError")
       ELSE FromReply(SDIFFSTORE(st, self.v, other_keys), PyNone)

RedisSet_isdisjoint(st, self, other) ==
    LET cls == self.t
    IN IF ~IsInstance(other, cls) THEN Raise(st, "TypeError")
       ELSE LET r == SINTER(st, <<self.v, other.v>>)
            IN FromReply(r, PyBool(~Truthy(r.resp)))

RedisSet_union(st, self, others, key) ==
    LET cls == self.t
        other_keys == KeysOfInstances(others, cls)
    IN IF ~HasAttr("con") THEN Raise(st, "AttributeError")
       ELSE LET final == RedisDSBase___init__(st, cls, key)
            IN IF final.exc # "ok" THEN final
               ELSE FromReply(SUNIONSTORE(st, Encode(key), <<self.v>> \o other_keys), final.ret)

\* the comprehension reads the name cls, bound nowhere, once per operand
RedisSet_update(st, self, others) ==
    IF others # <<>> /\ ~NameBound("cls", {"self", "others", "other_keys"})
    THEN Raise(st, "NameError")
    ELSE LET other_keys == KeysOfInstances(others, self.t)
         IN FromReply(SUNIONSTORE(st, self.v, <<self.v>> \o other_keys), PyNone)

----------------------------------------------------------------------------
(* RedisDict *)

\* the name key is read on line 337 and is bound nowhere
RedisDict___getitem__(st, self, field) ==
    LET r == HGET(st, self.v, Encode(field))
    IN IF IsErr(r) THEN Raise(r.store, "ResponseError")
       ELSE IF r.resp # PyNone THEN Ok(r.store, r.resp)
       ELSE IF ~NameBound("key", {"self", "field", "val"}) THEN Raise(r.store, "NameError")
       ELSE Raise(r.store, "KeyError")

RedisDict___setitem__(st, self, field, val) ==
    FromReply(HSET(st, self.v, Encode(field), Encode(val)), PyNone)

RedisDict___delitem__(st, self, k) ==
    LET r == HDEL(st, self.v, Encode(k))
    IN IF IsErr(r) THEN Raise(r.store, "ResponseError")
       ELSE IF ~Truthy(r.resp) THEN Raise(r.store, "KeyError")
       ELSE Ok(r.store, PyNone)

RedisDict___len__(st, self) ==
    LET r == HLEN(st, self.v) IN FromReply(r, r.resp)

RedisDict__fetch_dict(st, self) ==
    LET r == HGETALL(st, self.v) IN FromReply(r, r.resp)

\* iterating the fetched dict yields its fields, bytes as the store replied them
RedisDict___iter__(st, self) ==
    LET d == RedisDict__fetch_dict(st, self)
    IN IF d.exc # "ok" THEN d ELSE Ok(st, PySet({PyBytes(p[1]) : p \in d.ret.v}))

\* self.hexists is looked up on the adapter, which has no such attribute
RedisDict___contains__(st, self, k) ==
    IF ~HasAttr("hexists") THEN Raise(st, "AttributeError")
    ELSE Ok(st, PyBool(HasField(Entry(st, self.v).h, Encode(k))))

RedisDict_get(st, self, k, default) ==
    LET r == RedisDict___getitem__(st, self, k)
    IN IF r.exc = "KeyError" THEN Ok(r.store, default) ELSE r

----------------------------------------------------------------------------
(* Operands that are iterated: list(x), set(x), len(x), for value in x *)

\* ord of a byte, for the bytes the callers pass
ByteValue(c) ==
    CASE c = "a" -> 97
      [] c = "b" -> 98
      [] c = "c" -> 99
      [] c = "1" -> 49
      [] c = "2" -> 50

RECURSIVE Perms(_)
Perms(S) ==
    IF S = {} THEN {<<>>}
    ELSE UNION {{<<x>> \o q : q \in Perms(S \ {x})} : x \in S}

\* the orders in which an unordered operand can yield its items; one empty order
\* for an operand that fixes the order itself
IterOrders(st, x) ==
    CASE x.t = "set" -> Perms(x.v)
      [] x.t = "dict" -> Perms({PyBytes(p[1]) : p \in x.v})
      [] x.t = "RedisSet" ->
             LET r == RedisSet___iter__(st, x)
             IN IF r.exc # "ok" THEN {<<>>} ELSE Perms(r.ret.v)
      [] x.t = "RedisDict" ->
             LET r == RedisDict___iter__(st, x)
             IN IF r.exc # "ok" THEN {<<>>} ELSE Perms(r.ret.v)
      [] OTHER -> {<<>>}

AnyOrder(st, x) == CHOOSE q \in IterOrders(st, x) : TRUE

\* list(x): order is the order an unordered x yielded its items in
ListOf(st, x, order) ==
    CASE x.t = "list" -> Ok(st, x)
      [] x.t = "str" -> Ok(st, PyList([i \in 1..Len(x.v) |-> PyStr(SubSeq(x.v, i, i))]))
      [] x.t = "bytes" ->
             Ok(st, PyList([i \in 1..Len(x.v) |-> PyInt(ByteValue(SubSeq(x.v, i, i)))]))
      [] x.t = "set" -> Ok(st, PyList(order))
      [] x.t = "dict" -> Ok(st, PyList(order))
      [] x.t = "RedisList" -> ListOfSelf(st, x.v)
      [] x.t = "RedisSet" ->
             LET r == RedisSet___iter__(st, x)
             IN IF r.exc # "ok" THEN r ELSE Ok(st, PyList(order))
      [] x.t = "RedisDict" ->
             LET r == RedisDict___iter__(st, x)
             IN IF r.exc # "ok" THEN r ELSE Ok(st, PyList(order))

\* self += new_list; legacy tells whether the client sends str(object) for an
\* argument that is no bytes, str or number, or refuses it with DataError
RedisList___iadd__(st, k, new_list, legacy, order) ==
    IF ~IsOfType(new_list, "Iterable") THEN Raise(st, "TypeError")
    ELSE LET as_list == ListOf(st, new_list, order)
         IN IF as_list.exc # "ok" THEN as_list
            ELSE IF ~legacy THEN Raise(st, "DataError")
            ELSE RedisList_append(st, k, <<as_list.ret>>)

\* len(other): the adapter's __len__, or the size of a Python container; a value
\* without a length raises TypeError
LenOf(st, other) ==
    CASE other.t = "RedisSet" -> RedisSet___len__(st, other)
      [] other.t = "RedisList" -> RedisList___len__(st, other.v)
      [] other.t = "RedisDict" -> RedisDict___len__(st, other)
      [] other.t \in {"set", "dict"} -> Ok(st, PyInt(Cardinality(other.v)))
      [] other.t \in {"list", "str", "bytes"} -> Ok(st, PyInt(Len(other.v)))
      [] OTHER -> Raise(st, "TypeError")

\* set(x) of a RedisList: self[0], self[1], ... until IndexError, collected in a set
SetFromList(r) ==
    IF r.exc # "ok" THEN r ELSE Ok(r.store, PySet({r.ret.v[i] : i \in 1..Len(r.ret.v)}))

SetOfList(st, k) == SetFromList(IterFrom(st, k, 0, <<>>))

\* set(other): what iterating the operand yields, collected in a set; a value
\* that is not iterable raises TypeError
SetOf(st, other) ==
    CASE other.t = "RedisSet" -> RedisSet___iter__(st, other)
      [] other.t = "RedisList" -> SetOfList(st, other.v)
      [] other.t = "RedisDict" -> RedisDict___iter__(st, other)
      [] other.t \in {"set", "list", "str", "bytes", "dict"} ->
             SetFromList(ListOf(st, other, AnyOrder(st, other)))
      [] OTHER -> Raise(st, "TypeError")

\* n, m: len(self), len(other); a, b: set(self), set(other)
EqualByLenThenSet(st, n, m, a, b) ==
    IF n.exc # "ok" THEN n
    ELSE IF m.exc # "ok" THEN m
    ELSE IF n.ret # m.ret THEN Ok(st, PyBool(FALSE))
    ELSE IF a.exc # "ok" THEN a
    ELSE IF b.exc # "ok" THEN b
    ELSE Ok(st, PyBool(a.ret = b.ret))

RedisSet___eq__(st, self, other) ==
    EqualByLenThenSet(st, RedisSet___len__(st, self), LenOf(st, other),
                      RedisSet___iter__(st, self), SetOf(st, other))

\* not e, for the outcome e of self == other
Negated(e) == IF e.exc # "ok" THEN e ELSE Ok(e.store, PyBool(~e.ret.v))

\* type(self) is not type(other) raises; otherwise not (self == other)
RedisSet___ne__(st, self, other) ==
    IF other.t # self.t THEN Raise(st, "TypeError")
    ELSE Negated(RedisSet___eq__(st, self, other))

\* r: the reply of sinter, a set of bytes; members: set(self) or set(other), what
\* iterating the operand yields
ReplyEquals(st, r, members) ==
    IF IsErr(r) THEN Raise(r.store, "ResponseError")
    ELSE IF members.exc # "ok" THEN members
    ELSE Ok(st, PyBool(r.resp = members.ret))

\* other.key is read first and only an adapter has it
RedisSet___le__(st, self, other) ==
    IF other.t \notin {"RedisList", "RedisSet", "RedisDict"} THEN Raise(st, "AttributeError")
    ELSE ReplyEquals(st, SINTER(st, <<self.v, other.v>>), RedisSet___iter__(st, self))

RedisSet___ge__(st, self, other) ==
    IF other.t \notin {"RedisList", "RedisSet", "RedisDict"} THEN Raise(st, "AttributeError")
    ELSE ReplyEquals(st, SINTER(st, <<self.v, other.v>>), SetOf(st, other))

\* first and self != other, for the outcome first of self <= other or self >= other
AndNotEqual(first, self, other) ==
    IF first.exc # "ok" \/ ~Truthy(first.ret) THEN first
    ELSE RedisSet___ne__(first.store, self, other)

RedisSet___lt__(st, self, other) == AndNotEqual(RedisSet___le__(st, self, other), self, other)

RedisSet___gt__(st, self, other) == AndNotEqual(RedisSet___ge__(st, self, other), self, other)

RedisSet_issubset(st, self, other) == RedisSet___le__(st, self, other)
RedisSet_issuperset(st, self, other) == RedisSet___ge__(st, self, other)

\* the inherited in-place operators of a mutable set
RECURSIVE AddEach(_, _, _)
AddEach(st, self, q) ==
    IF q = <<>> THEN Ok(st, self)
    ELSE LET r == RedisSet_add(st, self, Head(q))
         IN IF r.exc # "ok" THEN r ELSE AddEach(r.store, self, Tail(q))

RECURSIVE DiscardEach(_, _, _)
DiscardEach(st, self, q) ==
    IF q = <<>> THEN Ok(st, self)
    ELSE LET r == RedisSet_discard(st, self, Head(q))
         IN IF r.exc # "ok" THEN r ELSE DiscardEach(r.store, self, Tail(q))

\* self |= it: for value in it: self.add(value); return self
RedisSet___ior__(st, self, it) ==
    IF ~IsOfType(it, "Iterable") THEN Raise(st, "TypeError")
    ELSE LET items == ListOf(st, it, AnyOrder(st, it))
         IN IF items.exc # "ok" THEN items ELSE AddEach(st, self, items.ret.v)

\* isinstance(x, collections.abc.Set): a Python set or a set adapter
IsSet(x) == x.t \in {"set", "RedisSet"}

\* self &= it: for value in (self - it): ...; self - it builds its result with
\* cls(iterable), one argument short of __init__(connection, key); when it is a
\* Set the iterable is a generator over self, whose creation calls iter(self)
RedisSet___iand__(st, self, it) ==
    IF ~IsSet(it) THEN Raise(st, "TypeError")
    ELSE LET members == RedisSet___iter__(st, self)
         IN IF members.exc # "ok" THEN members ELSE Raise(st, "TypeError")

\* self -= it: self.clear() when it is self, else self.discard(value) for each value;
\* same tells whether it is the very object self
RedisSet___isub__(st, self, it, same) ==
    IF same
    THEN LET r == RedisSet_clear(st, self) IN IF r.exc # "ok" THEN r ELSE Ok(r.store, self)
    ELSE IF ~IsOfType(it, "Iterable") THEN Raise(st, "TypeError")
    ELSE LET items == ListOf(st, it, AnyOrder(st, it))
         IN IF items.exc # "ok" THEN items ELSE DiscardEach(st, self, items.ret.v)

\* if value in self: self.discard(value) else: self.add(value), for each value
RECURSIVE ToggleEach(_, _, _)
ToggleEach(st, self, q) ==
    IF q = <<>> THEN Ok(st, self)
    ELSE LET c == RedisSet___contains__(st, self, Head(q))
         IN IF c.exc # "ok" THEN c
            ELSE LET r == IF Truthy(c.ret) THEN RedisSet_discard(st, self, Head(q))
                          ELSE RedisSet_add(st, self, Head(q))
                 IN IF r.exc # "ok" THEN r ELSE ToggleEach(r.store, self, Tail(q))

\* self ^= it: self.clear() when it is self; an operand that is no Set goes
\* through cls(it), one argument short of __init__(connection, key)
RedisSet___ixor__(st, self, it, same) ==
    IF same
    THEN LET r == RedisSet_clear(st, self) IN IF r.exc # "ok" THEN r ELSE Ok(r.store, self)
    ELSE IF ~IsSet(it) THEN Raise(st, "TypeError")
    ELSE LET items == ListOf(st, it, AnyOrder(st, it))
         IN IF items.exc # "ok" THEN items ELSE ToggleEach(st, self, items.ret.v)

----------------------------------------------------------------------------
(* State, inputs and the sequential callers of RedisList *)

ListKey == "q"
SetKeys == {"a", "b"}
DictKey == "m"
Keys == {ListKey, DictKey} \cup SetKeys
Procs == {1, 2}

Values == {PyStr(""), PyStr("a"), PyInt(1)}
UuidInts == {PyInt(77001)}
Indices == (0 - MaxIdx)..MaxIdx

RECURSIVE SeqsUpTo(_, _)
SeqsUpTo(S, n) ==
    IF n = 0 THEN {<<>>}
    ELSE LET shorter == SeqsUpTo(S, n - 1)
         IN shorter \cup {Append(q, x) : q \in shorter, x \in S}

IdleProc ==
    [pc |-> "idle", exc |-> "ok", i |-> 0, val |-> PyNone, n |-> 0, full |-> <<>>, post |-> <<>>]

Init ==
    /\ store = [k \in Keys |-> Absent]
    /\ last = [op |-> "init", args |-> <<>>, exc |-> "ok", ret |-> PyNone, pre |-> store]
    /\ proc = [p \in Procs |-> IdleProc]

\* one whole adapter call by a single caller; no list grows beyond cap
CallUpTo(op, args, r, cap) ==
    /\ \A k \in DOMAIN r.store : Len(Entry(r.store, k).l) <= cap
    /\ store' = r.store
    /\ last' = [op |-> op, args |-> args, exc |-> r.exc, ret |-> r.ret, pre |-> store]
    /\ UNCHANGED proc

Call(op, args, r) == CallUpTo(op, args, r, MaxLen)

ListAppend ==
    \E values \in SeqsUpTo(Values, MaxArgs) :
        Call("append", values, RedisList_append(store, ListKey, values))

ListExtend ==
    \E values \in SeqsUpTo(Values, MaxArgs) :
        Call("extend", <<PyList(values)>>, RedisList_extend(store, ListKey, PyList(values)))

ListGetItem ==
    \E i \in Indices :
        Call("getitem", <<PyInt(i)>>, RedisList___getitem__(store, ListKey, PyInt(i)))

ListGetSlice ==
    \E a \in (0 - MaxStart)..MaxStart, b \in Indices, step \in {PyNone, PyInt(1)} :
        Call("getslice", <<PySlice(PyInt(a), PyInt(b), step)>>,
             RedisList___getitem__(store, ListKey, PySlice(PyInt(a), PyInt(b), step)))

ListSetItem ==
    \E i \in Indices, val \in Values :
        Call("setitem", <<PyInt(i), val>>, RedisList___setitem__(store, ListKey, i, val))

ListDelItem ==
    \E i \in Indices, uid \in UuidInts :
        Call("delitem", <<PyInt(i), uid>>, RedisList___delitem__(store, ListKey, i, uid))

ListRemove ==
    \E val \in Values :
        Call("remove", <<val>>, RedisList_remove(store, ListKey, val))

ListLen ==
    Call("len", <<>>, RedisList___len__(store, ListKey))

ListInsert ==
    \E i \in Indices, val \in Values :
        Call("insert", <<PyInt(i), val>>, RedisList_insert(store, ListKey, i, val))

NextList ==
    \/ ListAppend
    \/ ListExtend
    \/ ListGetItem
    \/ ListGetSlice
    \/ ListSetItem
    \/ ListDelItem
    \/ ListRemove
    \/ ListLen
    \/ ListInsert

SpecList == Init /\ [][NextList]_vars

----------------------------------------------------------------------------
(* Claims about RedisList, checked under SpecList *)

ListNow == Entry(store, ListKey).l
ListBefore == Entry(last.pre, ListKey).l

\* C1: after append(v) of any storable value v, the empty string included, the
\* length is len(S)+1 and get(length-1) returns v (stated for the str values v,
\* which DECODER returns as they were passed).
C1_AppendThenGetLast ==
    (last.op = "append" /\ Len(last.args) = 1 /\ last.args[1].t = "str") =>
        /\ last.exc = "ok"
        /\ Len(ListNow) = Len(ListBefore) + 1
        /\ RedisList___getitem__(store, ListKey, PyInt(Len(ListNow) - 1))
               = Ok(store, last.args[1])

\* C2: get(slice(0, length(S))) returns exactly the contents obtained by calling
\* get(i) for each i in 0..length(S)-1, in order.
C2_SliceEqualsIndexReads ==
    (last.op = "getslice"
        /\ last.args[1] = PySlice(PyInt(0), PyInt(Len(ListNow)), PyNone)) =>
        /\ last.exc = "ok"
        /\ Len(last.ret.v) = Len(ListNow)
        /\ \A i \in 0..(Len(ListNow) - 1) :
               RedisList___getitem__(store, ListKey, PyInt(i)) = Ok(store, last.ret.v[i + 1])

\* C3: on an absent sequence key, get(index) raises IndexError for every integer
\* index and leaves the store unchanged.
C3_GetOnEmptyRaisesIndexError ==
    (last.op = "getitem" /\ ListBefore = <<>>) =>
        /\ last.exc = "IndexError"
        /\ store = last.pre

C3_Witness ==
    /\ last.op = "getitem"
    /\ ListBefore = <<>>
    /\ last.args[1].v < 0
    /\ last.exc = "IndexError"

----------------------------------------------------------------------------
(* The sequential callers of RedisSet and RedisDict *)

Elements == {PyInt(1), PyInt(2), PyStr("a")}
SetObjects == {PyObj("RedisSet", k) : k \in SetKeys}
\* operands a caller may pass as "other": the set adapters and a Python set
Operands == SetObjects \cup {PySet({PyInt(1)})}
CtorKeys == {PyStr("a"), PyStr("q"), PyInt(5), PyBytes("a"), PyNone}
Classes == {"RedisList", "RedisSet", "RedisDict"}

Construct ==
    \E cls \in Classes, key \in CtorKeys :
        Call("construct", <<PyStr(cls), key>>, RedisDSBase___init__(store, cls, key))

SetAdd ==
    \E self \in SetObjects, e \in Elements :
        Call("add", <<self, e>>, RedisSet_add(store, self, e))

SetDiscard ==
    \E self \in SetObjects, e \in Elements :
        Call("discard", <<self, e>>, RedisSet_discard(store, self, e))

SetRemove ==
    \E self \in SetObjects, e \in Elements :
        Call("remove", <<self, e>>, RedisSet_remove(store, self, e))

SetClear ==
    \E self \in SetObjects :
        Call("clear", <<self>>, RedisSet_clear(store, self))

SetContains ==
    \E self \in SetObjects, e \in Elements :
        Call("contains", <<self, e>>, RedisSet___contains__(store, self, e))

SetLen ==
    \E self \in SetObjects :
        Call("setlen", <<self>>, RedisSet___len__(store, self))

SetEq ==
    \E self \in SetObjects, other \in SetObjects :
        Call("eq", <<self, other>>, RedisSet___eq__(store, self, other))

SetCopy ==
    \E self \in SetObjects, uid \in UuidInts :
        Call("copy", <<self, PyList(<<>>), uid>>, RedisSet_copy(store, self, uid))

SetUnion ==
    \E self \in SetObjects, others \in SeqsUpTo(Operands, MaxOthers), uid \in UuidInts :
        Call("union", <<self, PyList(others), uid>>, RedisSet_union(store, self, others, uid))

SetIntersection ==
    \E self \in SetObjects, others \in SeqsUpTo(Operands, MaxOthers), uid \in UuidInts :
        Call("intersection", <<self, PyList(others), uid>>,
             RedisSet_intersection(store, self, others, uid))

SetDifference ==
    \E self \in SetObjects, others \in SeqsUpTo(Operands, MaxOthers), uid \in UuidInts :
        Call("difference", <<self, PyList(others), uid>>,
             RedisSet_difference(store, self, others, uid))

SetUpdate ==
    \E self \in SetObjects, others \in SeqsUpTo(Operands, MaxOthers) :
        Call("update", <<self, PyList(others)>>, RedisSet_update(store, self, others))

SetIntersectionUpdate ==
    \E self \in SetObjects, others \in SeqsUpTo(Operands, MaxOthers) :
        Call("intersection_update", <<self, PyList(others)>>,
             RedisSet_intersection_update(store, self, others))

SetDifferenceUpdate ==
    \E self \in SetObjects, others \in SeqsUpTo(Operands, MaxOthers) :
        Call("difference_update", <<self, PyList(others)>>,
             RedisSet_difference_update(store, self, others))

SetIsDisjoint ==
    \E self \in SetObjects, other \in Operands :
        Call("isdisjoint", <<self, PyList(<<other>>)>>, RedisSet_isdisjoint(store, self, other))

\* the members SPOP may pick; on an empty set there is nothing to pick
SpopChoices(st, k) == IF Entry(st, k).s = {} THEN {""} ELSE Entry(st, k).s

SetPop ==
    \E self \in SetObjects :
        \E chosen \in SpopChoices(store, self.v) :
            Call("setpop", <<self>>, RedisSet_pop(store, self, chosen))

\* operands of the in-place operators: the set adapters, a Python set, a dict, a number
InPlaceOperands == Operands \cup {PyDict({<<"1", "v">>}), PyInt(5)}

\* whether the operand is the very object self: only an adapter of the same
\* class and key can be, and a second object on the same key is not
Identities(self, it) == IF it = self THEN BOOLEAN ELSE {FALSE}

SetIOr ==
    \E self \in SetObjects, it \in InPlaceOperands :
        Call("ior", <<self, PyList(<<it>>)>>, RedisSet___ior__(store, self, it))

SetIAnd ==
    \E self \in SetObjects, it \in InPlaceOperands :
        Call("iand", <<self, PyList(<<it>>)>>, RedisSet___iand__(store, self, it))

SetISub ==
    \E self \in SetObjects, it \in InPlaceOperands :
        \E same \in Identities(self, it) :
            Call("isub", <<self, PyList(<<it>>), PyBool(same)>>,
                 RedisSet___isub__(store, self, it, same))

SetIXor ==
    \E self \in SetObjects, it \in InPlaceOperands :
        \E same \in Identities(self, it) :
            Call("ixor", <<self, PyList(<<it>>), PyBool(same)>>,
                 RedisSet___ixor__(store, self, it, same))

NextSet ==
    \/ Construct
    \/ SetAdd
    \/ SetDiscard
    \/ SetRemove
    \/ SetClear
    \/ SetContains
    \/ SetLen
    \/ SetEq
    \/ SetCopy
    \/ SetUnion
    \/ SetIntersection
    \/ SetDifference
    \/ SetUpdate
    \/ SetIntersectionUpdate
    \/ SetDifferenceUpdate
    \/ SetIsDisjoint
    \/ SetPop
    \/ SetIOr
    \/ SetIAnd
    \/ SetISub
    \/ SetIXor

SpecSet == Init /\ [][NextSet]_vars

DictObject == PyObj("RedisDict", DictKey)
Fields == {PyStr("x"), PyStr("y")}
FieldValues == {PyStr("v"), PyInt(7)}
Defaults == {PyInt(7), PyNone}

DictSetItem ==
    \E f \in Fields, val \in FieldValues :
        Call("dictsetitem", <<f, val>>, RedisDict___setitem__(store, DictObject, f, val))

DictDelItem ==
    \E f \in Fields :
        Call("dictdelitem", <<f>>, RedisDict___delitem__(store, DictObject, f))

DictGetItem ==
    \E f \in Fields :
        Call("dictgetitem", <<f>>, RedisDict___getitem__(store, DictObject, f))

DictGet ==
    \E f \in Fields, d \in Defaults :
        Call("get", <<f, d>>, RedisDict_get(store, DictObject, f, d))

DictContains ==
    \E f \in Fields :
        Call("dictcontains", <<f>>, RedisDict___contains__(store, DictObject, f))

DictLen ==
    Call("dictlen", <<>>, RedisDict___len__(store, DictObject))

NextDict ==
    \/ DictSetItem
    \/ DictDelItem
    \/ DictGetItem
    \/ DictGet
    \/ DictContains
    \/ DictLen

SpecDict == Init /\ [][NextDict]_vars

----------------------------------------------------------------------------
(* Two callers running insert on the same key at the same middle index, one   *)
(* store command at a time.  pc is the caller's position in RedisList.insert: *)
(* idle, iter (inside list(self)), trim, append, extend, done or raised.      *)

RaceBytes == {"", "b"}
RaceValues == {PyStr(""), PyStr("a")}
RaceLists == {q \in SeqsUpTo(RaceBytes, MaxRaceLen) : Len(q) >= 2}

InitRace ==
    /\ \E q \in RaceLists :
           store = [k \in Keys |-> IF k = ListKey THEN ListEntry(q) ELSE Absent]
    /\ last = [op |-> "race", args |-> <<>>, exc |-> "ok", ret |-> PyNone, pre |-> store]
    /\ \E i \in 1..(MaxRaceLen - 1), v \in [Procs -> RaceValues] :
           /\ i < Len(Entry(store, ListKey).l)
           /\ proc = [p \in Procs |-> [IdleProc EXCEPT !.i = i, !.val = v[p]]]

Step(p, st, new) ==
    /\ store' = st
    /\ proc' = [proc EXCEPT ![p] = new]
    /\ UNCHANGED last

\* list(self) begins: len(self) is read as the length hint
InsertStart(p) ==
    /\ proc[p].pc = "idle"
    /\ LET r == RedisList___len__(store, ListKey)
       IN IF r.exc # "ok"
          THEN Step(p, r.store, [proc[p] EXCEPT !.pc = "raised", !.exc = r.exc])
          ELSE Step(p, r.store, [proc[p] EXCEPT !.pc = "iter"])

\* list(self) continues: self[n]; IndexError ends the iteration and post = full_list[i:]
InsertIter(p) ==
    /\ proc[p].pc = "iter"
    /\ LET r == RedisList___getitem__(store, ListKey, PyInt(proc[p].n))
       IN IF r.exc = "IndexError"
          THEN Step(p, r.store, [proc[p] EXCEPT !.pc = "trim",
                                                !.post = SliceFrom(proc[p].full, proc[p].i)])
          ELSE IF r.exc # "ok"
          THEN Step(p, r.store, [proc[p] EXCEPT !.pc = "raised", !.exc = r.exc])
          ELSE Step(p, r.store, [proc[p] EXCEPT !.n = @ + 1, !.full = Append(@, r.ret)])

InsertTrimStep(p) ==
    /\ proc[p].pc = "trim"
    /\ LET r == InsertTrim(store, ListKey, proc[p].i)
       IN IF IsErr(r)
          THEN Step(p, r.store, [proc[p] EXCEPT !.pc = "raised", !.exc = "ValueError"])
          ELSE Step(p, r.store, [proc[p] EXCEPT !.pc = "append"])

InsertAppendStep(p) ==
    /\ proc[p].pc = "append"
    /\ LET r == InsertAppend(store, ListKey, proc[p].val)
       IN IF r.exc # "ok"
          THEN Step(p, r.store, [proc[p] EXCEPT !.pc = "raised", !.exc = "ValueError"])
          ELSE Step(p, r.store, [proc[p] EXCEPT !.pc = "extend"])

InsertExtendStep(p) ==
    /\ proc[p].pc = "extend"
    /\ LET r == InsertExtend(store, ListKey, proc[p].post)
       IN IF r.exc # "ok"
          THEN Step(p, r.store, [proc[p] EXCEPT !.pc = "raised", !.exc = "ValueError"])
          ELSE Step(p, r.store, [proc[p] EXCEPT !.pc = "done"])

NextRace ==
    \E p \in Procs :
        \/ InsertStart(p)
        \/ InsertIter(p)
        \/ InsertTrimStep(p)
        \/ InsertAppendStep(p)
        \/ InsertExtendStep(p)

SpecRace == InitRace /\ [][NextRace]_vars

AllReturned == \A p \in Procs : proc[p].pc \in {"done", "raised"}

\* C8: two concurrent inserts at the same middle index: in every interleaving the
\* final length is at least 2, the number of inserted elements; the witness is an
\* interleaving whose final length differs from the original length + 2.
C8_FinalLengthAtLeastInserted ==
    (last.op = "race" /\ AllReturned) => Len(ListNow) >= 2

\* both inserts returned without error on a list and values free of empty strings
\* (so every serial order gives original + 2), and the final length differs
C8_Witness ==
    /\ last.op = "race"
    /\ \A p \in Procs : proc[p].pc = "done" /\ proc[p].val.v # ""
    /\ \A j \in 1..Len(ListBefore) : ListBefore[j] # ""
    /\ Len(ListNow) # Len(ListBefore) + 2

----------------------------------------------------------------------------
(* Claims about RedisSet and construction, checked under SpecSet *)

MembersNow(k) == Entry(store, k).s
MembersBefore(k) == Entry(last.pre, k).s
OthersOf(call) == call.args[2].v
AllSetAdapters(others) == \A i \in 1..Len(others) : IsInstance(others[i], "RedisSet")
KeysOf(others) == {others[i].v : i \in 1..Len(others)}

\* C4: for an element e not in the set, discard(e) never raises and leaves the set
\* unchanged, and remove(e) raises KeyError every time and leaves the set unchanged.
C4_DiscardSilentRemoveRaises ==
    (last.op \in {"discard", "remove"}
        /\ Encode(last.args[2]) \notin MembersBefore(last.args[1].v)) =>
        /\ store = last.pre
        /\ last.op = "discard" => last.exc = "ok"
        /\ last.op = "remove" => last.exc = "KeyError"

\* remove of an absent element on a set that has other members, again absent after
C4_Witness ==
    /\ last.op = "remove"
    /\ MembersBefore(last.args[1].v) # {}
    /\ Encode(last.args[2]) \notin MembersBefore(last.args[1].v)
    /\ last.exc = "KeyError"
    /\ RedisSet_remove(store, last.args[1], last.args[2]).exc = "KeyError"
    /\ RedisSet_discard(store, last.args[1], last.args[2]) = Ok(store, PyNone)

\* C5: A.intersection(B) returns a view bound to a fresh key whose contents are
\* exactly the elements common to A and B, and keys A and B are unchanged.
C5_IntersectionMaterializes ==
    (last.op = "intersection" /\ OthersOf(last) # <<>> /\ AllSetAdapters(OthersOf(last))) =>
        /\ last.exc = "ok"
        /\ last.ret.t = "RedisSet"
        /\ last.ret.v \notin SetKeys
        /\ MembersNow(last.ret.v)
               = {x \in MembersBefore(last.args[1].v) :
                      \A k \in KeysOf(OthersOf(last)) : x \in MembersBefore(k)}
        /\ \A k \in SetKeys : MembersNow(k) = MembersBefore(k)

\* C6: with U = A.union(B), U.intersection(U) == U.
C6_UnionIntersectionRoundTrip ==
    (last.op = "union" /\ OthersOf(last) # <<>> /\ AllSetAdapters(OthersOf(last))) =>
        /\ last.exc = "ok"
        /\ LET U == last.ret
               I == RedisSet_intersection(store, U, <<U>>, PyInt(last.args[3].v + 1))
           IN /\ I.exc = "ok"
              /\ RedisSet___eq__(I.store, I.ret, U) = Ok(I.store, PyBool(TRUE))

DerivedOps == {"copy", "union", "intersection", "difference"}
AlgebraOps ==
    {"union", "intersection", "difference", "update", "intersection_update",
     "difference_update", "isdisjoint"}

\* C9: constructing an adapter with a non-string key raises TypeError before any
\* remote call, and every adapter the library constructs for a derived key (copy,
\* union, intersection, difference) gets a string key, so construction succeeds.
C9_ConstructionKeys ==
    /\ (last.op = "construct" /\ last.args[2].t # "str") =>
           (last.exc = "TypeError" /\ store = last.pre)
    /\ (last.op \in DerivedOps /\ AllSetAdapters(OthersOf(last))) =>
           (last.args[3].t = "str" /\ last.exc = "ok" /\ last.ret.t = "RedisSet")

\* C10: every set algebra entry point raises TypeError when an operand is not a
\* set adapter, creates no result key and leaves the receiver unchanged.
C10_AlgebraRejectsForeignOperand ==
    (last.op \in AlgebraOps /\ ~AllSetAdapters(OthersOf(last))) =>
        /\ last.exc = "TypeError"
        /\ store = last.pre

----------------------------------------------------------------------------
(* Claims about RedisDict, checked under SpecDict *)

FieldsBefore == {p[1] : p \in Entry(last.pre, DictKey).h}

\* C7: for a mapping without field x, get(x, default=d) returns d without raising,
\* item access of x raises KeyError, and neither call changes the mapping.
C7_GetDefaultAndMissingItem ==
    (last.op \in {"get", "dictgetitem"} /\ Encode(last.args[1]) \notin FieldsBefore) =>
        /\ store = last.pre
        /\ last.op = "get" => (last.exc = "ok" /\ last.ret = last.args[2])
        /\ last.op = "dictgetitem" => last.exc = "KeyError"

----------------------------------------------------------------------------
(* Claims about RedisList.insert and RedisList.__delitem__, checked under SpecList *)

\* what a Python list holds after insert(i, x) and after del at position i (0-based)
InsertAt(q, i, x) == SubSeq(q, 1, i) \o <<x>> \o SubSeq(q, i + 1, Len(q))
RemoveAt(q, i) == SubSeq(q, 1, i) \o SubSeq(q, i + 2, Len(q))

\* C11: with no concurrent writer, for 0 <= i <= len(S), insert(i, v) returns
\* without error and leaves S[0..i-1], v, S[i..], so the length grows by one.
C11_InsertPlacesValue ==
    (last.op = "insert" /\ last.args[1].v >= 0 /\ last.args[1].v <= Len(ListBefore)) =>
        /\ last.exc = "ok"
        /\ ListNow = InsertAt(ListBefore, last.args[1].v, Encode(last.args[2]))
        /\ Len(ListNow) = Len(ListBefore) + 1

DeletedExactly ==
    /\ last.exc = "ok"
    /\ ListNow = RemoveAt(ListBefore, last.args[1].v)
    /\ \A j \in 1..Len(ListNow) : ListNow[j] # Encode(last.args[2])

\* C12 as stated: for 0 <= i < len(S), delete(i) removes exactly position i, the
\* sentinel is gone afterwards, and index 0 and the last position use a direct pop,
\* the other positions the sentinel path.
C12_DeleteAsStated ==
    (last.op = "delitem" /\ last.args[1].v >= 0 /\ last.args[1].v < Len(ListBefore)) =>
        /\ DeletedExactly
        /\ DelItemPath(last.args[1].v)
               \in (IF last.args[1].v \in {0, Len(ListBefore) - 1}
                    THEN {"lpop", "rpop"} ELSE {"sentinel"})

\* C12 amended: for 0 <= i < len(S), delete(i) removes exactly position i and the
\* sentinel is gone afterwards; index 0 uses a direct left pop and every other
\* index in that range, the last position len(S)-1 included, the sentinel path;
\* only index -1 uses the direct right pop, and removes the last element.
C12_DeleteRemovesPosition ==
    /\ (last.op = "delitem" /\ last.args[1].v >= 0 /\ last.args[1].v < Len(ListBefore)) =>
           /\ DeletedExactly
           /\ DelItemPath(last.args[1].v) = (IF last.args[1].v = 0 THEN "lpop" ELSE "sentinel")
    /\ (last.op = "delitem" /\ last.args[1].v = -1 /\ ListBefore # <<>>) =>
           /\ last.exc = "ok"
           /\ ListNow = SubSeq(ListBefore, 1, Len(ListBefore) - 1)
           /\ DelItemPath(last.args[1].v) = "rpop"

\* a middle position of a list whose first and middle elements are equal
C12_Witness ==
    /\ last.op = "delitem"
    /\ last.args[1].v = 1
    /\ Len(ListBefore) = 3
    /\ ListBefore[1] = ListBefore[2]
    /\ ListBefore[3] # ListBefore[1]
    /\ ListNow = <<ListBefore[1], ListBefore[3]>>

----------------------------------------------------------------------------
(* The sequential callers of in-place repeat and in-place concatenate *)

RepeatCounts == {PyInt(n) : n \in (0 - 1)..MaxRep} \cup {PyStr("a"), PyBool(TRUE)}
IAddOperands ==
    {PyList(<<PyStr("a")>>), PyList(<<PyStr("\t")>>), PyStr("a"),
     PySet({PyInt(1), PyStr("a")}), PyDict({<<"a", "v">>}), PyBytes("a"), PyInt(5)}

ListIMul ==
    \E value \in RepeatCounts :
        CallUpTo("imul", <<value>>, RedisList___imul__(store, ListKey, value), MaxBulkLen)

ListIAdd ==
    \E new_list \in IAddOperands, legacy \in BOOLEAN :
        \E order \in IterOrders(store, new_list) :
            CallUpTo("iadd", <<new_list, PyBool(legacy), PyList(order)>>,
                     RedisList___iadd__(store, ListKey, new_list, legacy, order), MaxBulkLen)

ListReverse ==
    CallUpTo("reverse", <<>>, RedisList_reverse(store, ListKey), MaxBulkLen)

ListPop ==
    \E index \in Indices, uid \in UuidInts :
        CallUpTo("pop", <<PyInt(index), uid>>,
                 RedisList_pop(store, ListKey, index, uid), MaxBulkLen)

ListClear ==
    \E uid \in UuidInts :
        CallUpTo("clear", <<uid>>, RedisList_clear(store, ListKey, uid), MaxBulkLen)

NextBulk ==
    \/ ListAppend
    \/ ListIMul
    \/ ListIAdd
    \/ ListReverse
    \/ ListPop
    \/ ListClear

SpecBulk == Init /\ [][NextBulk]_vars

RECURSIVE Repeated(_, _)
Repeated(q, n) == IF n <= 0 THEN <<>> ELSE q \o Repeated(q, n - 1)

\* C13: with no concurrent writer, S *= n clears the key when n < 1, leaves S
\* unchanged when n = 1 and leaves S repeated n times when n > 1 (stated for the
\* non-empty S without empty-string elements).
C13_RepeatInPlace ==
    (last.op = "imul" /\ last.args[1].t = "int" /\ ListBefore # <<>>
        /\ \A j \in 1..Len(ListBefore) : ListBefore[j] # "") =>
        /\ last.exc = "ok"
        /\ ListNow = Repeated(ListBefore, last.args[1].v)

\* C14: with no concurrent writer, S += T leaves S followed by the elements of
\* T in order; a non-iterable operand raises TypeError and leaves S unchanged.
C14_ConcatenateInPlace ==
    (last.op = "iadd") =>
        IF IsOfType(last.args[1], "Iterable")
        THEN /\ last.exc = "ok"
             /\ ListNow = ListBefore
                    \o EncodeAll(ListOf(last.pre, last.args[1], last.args[3].v).ret.v)
        ELSE /\ last.exc = "TypeError"
             /\ ListNow = ListBefore

----------------------------------------------------------------------------
(* In-place set updates, checked under SpecSet *)

InPlaceOps == {"update", "intersection_update", "difference_update"}

\* C15: for sets A and B of the same adapter type, A.intersection_update(B) leaves
\* old A intersect B in key A, A.difference_update(B) leaves old A minus B,
\* A.update(B) leaves old A union B, and key B is unchanged.
C15_InPlaceUpdates ==
    (last.op \in InPlaceOps /\ Len(OthersOf(last)) = 1 /\ AllSetAdapters(OthersOf(last))) =>
        LET A == MembersBefore(last.args[1].v)
            keyB == OthersOf(last)[1].v
            B == MembersBefore(keyB)
        IN /\ last.exc = "ok"
           /\ MembersNow(last.args[1].v)
                  = (CASE last.op = "update" -> A \cup B
                       [] last.op = "intersection_update" -> A \cap B
                       [] last.op = "difference_update" -> A \ B)
           /\ keyB # last.args[1].v => MembersNow(keyB) = B

----------------------------------------------------------------------------
(* The ordering predicates of RedisSet and their callers *)

SetLe ==
    \E self \in SetObjects, other \in Operands :
        Call("le", <<self, PyList(<<other>>)>>, RedisSet___le__(store, self, other))

SetLt ==
    \E self \in SetObjects, other \in Operands :
        Call("lt", <<self, PyList(<<other>>)>>, RedisSet___lt__(store, self, other))

SetGe ==
    \E self \in SetObjects, other \in Operands :
        Call("ge", <<self, PyList(<<other>>)>>, RedisSet___ge__(store, self, other))

SetGt ==
    \E self \in SetObjects, other \in Operands :
        Call("gt", <<self, PyList(<<other>>)>>, RedisSet___gt__(store, self, other))

SetNe ==
    \E self \in SetObjects, other \in Operands :
        Call("ne", <<self, PyList(<<other>>)>>, RedisSet___ne__(store, self, other))

SetIsSubset ==
    \E self \in SetObjects, other \in Operands :
        Call("issubset", <<self, PyList(<<other>>)>>, RedisSet_issubset(store, self, other))

SetIsSuperset ==
    \E self \in SetObjects, other \in Operands :
        Call("issuperset", <<self, PyList(<<other>>)>>, RedisSet_issuperset(store, self, other))

NextOrder ==
    \/ SetAdd
    \/ SetDiscard
    \/ SetLe
    \/ SetLt
    \/ SetGe
    \/ SetGt
    \/ SetNe
    \/ SetIsSubset
    \/ SetIsSuperset
    \/ SetIsDisjoint

SpecOrder == Init /\ [][NextOrder]_vars

OrderOps == {"le", "lt", "ge", "gt", "issubset", "issuperset", "isdisjoint"}

\* C16: for sets A and B of the same adapter type, issubset / <= is true exactly
\* when every member of A is in B, issuperset / >= exactly when every member of B
\* is in A, < and > additionally require A # B, isdisjoint is true exactly when
\* they share no member, and none of them modifies A or B.
C16_OrderingPredicates ==
    (last.op \in OrderOps /\ AllSetAdapters(OthersOf(last))) =>
        LET A == MembersBefore(last.args[1].v)
            B == MembersBefore(OthersOf(last)[1].v)
        IN /\ last.exc = "ok"
           /\ store = last.pre
           /\ last.ret
                  = PyBool(CASE last.op \in {"le", "issubset"} -> A \subseteq B
                             [] last.op \in {"ge", "issuperset"} -> B \subseteq A
                             [] last.op = "lt" -> A \subseteq B /\ A # B
                             [] last.op = "gt" -> B \subseteq A /\ A # B
                             [] last.op = "isdisjoint" -> A \cap B = {})

----------------------------------------------------------------------------
(* Presence of fields in RedisDict, checked under SpecDict *)

\* C17: a field is reported present by the membership test exactly when the hash
\* holds it: after set(f, v) membership of f is true and get(f) returns v; after
\* delete(f) membership is false and item access raises KeyError; delete of an
\* absent field raises KeyError and leaves the mapping unchanged.
C17_MappingPresence ==
    /\ last.op = "dictcontains" =>
           /\ last.exc = "ok"
           /\ last.ret = PyBool(Encode(last.args[1]) \in FieldsBefore)
    /\ last.op = "dictsetitem" =>
           /\ last.exc = "ok"
           /\ RedisDict___contains__(store, DictObject, last.args[1]) = Ok(store, PyBool(TRUE))
           /\ RedisDict_get(store, DictObject, last.args[1], PyNone).exc = "ok"
           /\ RedisDict_get(store, DictObject, last.args[1], PyNone).ret.v = Encode(last.args[2])
    /\ (last.op = "dictdelitem" /\ Encode(last.args[1]) \in FieldsBefore) =>
           /\ last.exc = "ok"
           /\ RedisDict___contains__(store, DictObject, last.args[1]) = Ok(store, PyBool(FALSE))
           /\ RedisDict___getitem__(store, DictObject, last.args[1]).exc = "KeyError"
    /\ (last.op = "dictdelitem" /\ Encode(last.args[1]) \notin FieldsBefore) =>
           /\ last.exc = "KeyError"
           /\ store = last.pre

----------------------------------------------------------------------------
(* One caller running del S[i] at a middle index while one other caller writes *)
(* the same key, one store command at a time.  Caller 1 is the deleter: del,   *)
(* rem (the slot holds the sentinel), done or raised.  Caller 2 is the writer: *)
(* set (S[j] = v), lpop (del S[0]), rpop (del S[-1]) or idle (insert(j, v)).   *)

Deleter == 1
Writer == 2
DelBytes == {"a", "b"}
DelLists == {q \in SeqsUpTo(DelBytes, MaxRaceLen) : Len(q) >= 3}
WriterKinds == {"set", "lpop", "rpop", "idle"}
WriterValue == PyStr("x")

InitDelRace ==
    /\ \E q \in DelLists :
           store = [k \in Keys |-> IF k = ListKey THEN ListEntry(q) ELSE Absent]
    /\ \E kind \in WriterKinds, uid \in UuidInts :
       \E i \in 1..(Len(Entry(store, ListKey).l) - 2), j \in 0..(Len(Entry(store, ListKey).l) - 1) :
           /\ last = [op |-> "delrace", args |-> <<PyStr(kind)>>, exc |-> "ok",
                      ret |-> PyNone, pre |-> store]
           /\ proc = [p \in Procs |->
                         IF p = Deleter
                         THEN [IdleProc EXCEPT !.pc = "del", !.i = i, !.val = uid]
                         ELSE [IdleProc EXCEPT !.pc = kind, !.i = j, !.val = WriterValue]]

\* self[index] = uid
DelSetStep(p) ==
    /\ proc[p].pc = "del"
    /\ LET r == RedisList___setitem__(store, ListKey, proc[p].i, proc[p].val)
       IN IF r.exc # "ok"
          THEN Step(p, r.store, [proc[p] EXCEPT !.pc = "raised", !.exc = r.exc])
          ELSE Step(p, r.store, [proc[p] EXCEPT !.pc = "rem"])

\* self.remove(uid)
DelRemoveStep(p) ==
    /\ proc[p].pc = "rem"
    /\ LET r == RedisList_remove(store, ListKey, proc[p].val)
       IN IF r.exc # "ok"
          THEN Step(p, r.store, [proc[p] EXCEPT !.pc = "raised", !.exc = r.exc])
          ELSE Step(p, r.store, [proc[p] EXCEPT !.pc = "done"])

WriterSetItem(p) ==
    /\ proc[p].pc = "set"
    /\ LET r == RedisList___setitem__(store, ListKey, proc[p].i, proc[p].val)
       IN IF r.exc # "ok"
          THEN Step(p, r.store, [proc[p] EXCEPT !.pc = "raised", !.exc = r.exc])
          ELSE Step(p, r.store, [proc[p] EXCEPT !.pc = "done"])

\* del S[0] and del S[-1]: one pop each
WriterPop(p) ==
    /\ proc[p].pc \in {"lpop", "rpop"}
    /\ LET r == RedisList___delitem__(store, ListKey,
                                      IF proc[p].pc = "lpop" THEN 0 ELSE 0 - 1, proc[p].val)
       IN IF r.exc # "ok"
          THEN Step(p, r.store, [proc[p] EXCEPT !.pc = "raised", !.exc = r.exc])
          ELSE Step(p, r.store, [proc[p] EXCEPT !.pc = "done"])

NextDelRace ==
    \/ DelSetStep(Deleter)
    \/ DelRemoveStep(Deleter)
    \/ WriterSetItem(Writer)
    \/ WriterPop(Writer)
    \/ InsertStart(Writer)
    \/ InsertIter(Writer)
    \/ InsertTrimStep(Writer)
    \/ InsertAppendStep(Writer)
    \/ InsertExtendStep(Writer)

SpecDelRace == InitDelRace /\ [][NextDelRace]_vars

\* the writer's whole operation, run by itself on st
WriterCall(st) ==
    LET kind == last.args[1].v
        w == proc[Writer]
    IN CASE kind = "set" -> RedisList___setitem__(st, ListKey, w.i, w.val)
         [] kind = "lpop" -> RedisList___delitem__(st, ListKey, 0, w.val)
         [] kind = "rpop" -> RedisList___delitem__(st, ListKey, 0 - 1, w.val)
         [] kind = "idle" -> RedisList_insert(st, ListKey, w.i, w.val)

DeleterCall(st) ==
    RedisList___delitem__(st, ListKey, proc[Deleter].i, proc[Deleter].val)

\* the sequences the two serial orders leave
SerialFinals ==
    {Entry(WriterCall(DeleterCall(last.pre).store).store, ListKey).l,
     Entry(DeleterCall(WriterCall(last.pre).store).store, ListKey).l}

Sentinel == Encode(proc[Deleter].val)
WriterNotStarted == proc[Writer].pc \in WriterKinds
DeleterNotStarted == proc[Deleter].pc = "del"

\* C18: delete(index) at a middle index is two separate remote steps: while the
\* other writer has not started, the key holds S with the sentinel in slot index
\* after the first step and S without position index after the second; a writer
\* that ran before the deleter started leaves what its operation leaves by
\* itself.  The witness is an interleaving after which the final sequence is the
\* result of neither serial order and still holds the sentinel.
C18_DeleteIsTwoSteps ==
    /\ (last.op = "delrace" /\ WriterNotStarted) =>
           /\ proc[Deleter].pc \in {"del", "rem", "done"}
           /\ proc[Deleter].pc = "del" => ListNow = ListBefore
           /\ proc[Deleter].pc = "rem" =>
                  ListNow = [ListBefore EXCEPT ![proc[Deleter].i + 1] = Sentinel]
           /\ proc[Deleter].pc = "done" => ListNow = RemoveAt(ListBefore, proc[Deleter].i)
    /\ (last.op = "delrace" /\ DeleterNotStarted /\ proc[Writer].pc \in {"done", "raised"}) =>
           ListNow = Entry(WriterCall(last.pre).store, ListKey).l

\* both operations returned without error, the sequence is the result of neither
\* serial order and the sentinel is still in it
C18_Witness ==
    /\ last.op = "delrace"
    /\ \A p \in Procs : proc[p].pc = "done"
    /\ ListNow \notin SerialFinals
    /\ \E n \in 1..Len(ListNow) : ListNow[n] = Sentinel

\* the writer overwrote the sentinel between the two steps: the delete raised
\* ValueError and the sequence is the result of neither serial order
C18_DeleteFails ==
    /\ last.op = "delrace"
    /\ proc[Writer].pc = "done"
    /\ proc[Deleter].pc = "raised"
    /\ proc[Deleter].exc = "ValueError"
    /\ ListNow \notin SerialFinals

----------------------------------------------------------------------------
(* insert with a failing remote step *)

ListInsertUnder ==
    \E i \in Indices, val \in Values, fault \in Faults :
        Call("insertunder", <<PyInt(i), val, PyStr(fault)>>,
             RedisList_insertUnder(store, ListKey, i, val, fault))

NextFault ==
    \/ ListAppend
    \/ ListInsertUnder

SpecFault == Init /\ [][NextFault]_vars

\* what truncate-keep-range(0, i-1) keeps of q: q[0..i-1] for i >= 1, all of q for
\* i = 0 (the range 0..-1), q without its last 1-i elements for i < 0
Kept(q, i) ==
    IF i > 0 THEN SubSeq(q, 1, IF i < Len(q) THEN i ELSE Len(q))
    ELSE SubSeq(q, 1, IF Len(q) + i > 0 THEN Len(q) + i ELSE 0)

\* the tail insert read before truncating
TailRead == SliceFrom(ListOfSelf(last.pre, ListKey).ret.v, last.args[1].v)

\* C19: if a remote step of insert(i, v) fails (truncate, append of v, re-append
\* of the tail, a rejected re-append of an empty tail included) insert raises
\* ValueError and does not roll back: the key holds what the completed steps
\* produced, S for a failed truncate, the kept range for a failed append, the kept
\* range followed by v for a failed re-append.
C19_NoRollback ==
    (last.op = "insertunder") =>
        LET i == last.args[1].v
            v == Encode(last.args[2])
            fault == last.args[3].v
        IN /\ fault = "trim" => (last.exc = "ValueError" /\ ListNow = ListBefore)
           /\ fault = "append" => (last.exc = "ValueError" /\ ListNow = Kept(ListBefore, i))
           /\ (fault = "extend" \/ (fault = "none" /\ TailRead = <<>>)) =>
                  (last.exc = "ValueError" /\ ListNow = Kept(ListBefore, i) \o <<v>>)

\* the append of v failed at a middle index: the key is left as S[0..i-1]
C19_Witness ==
    /\ last.op = "insertunder"
    /\ last.args[3].v = "append"
    /\ last.args[1].v >= 1
    /\ last.args[1].v < Len(ListBefore)
    /\ last.exc = "ValueError"
    /\ ListNow = SubSeq(ListBefore, 1, last.args[1].v)
    /\ ListNow # ListBefore

\* the re-append of the tail failed: the key is left as S[0..i-1] followed by v
C19_LeftWithValue ==
    /\ last.op = "insertunder"
    /\ last.args[3].v = "extend"
    /\ last.args[1].v >= 1
    /\ last.args[1].v < Len(ListBefore)
    /\ last.exc = "ValueError"
    /\ ListNow = SubSeq(ListBefore, 1, last.args[1].v) \o <<Encode(last.args[2])>>

----------------------------------------------------------------------------
(* A RedisList adapter bound to a key that holds a set: the callers of         *)
(* __setitem__ and insert on a key once a set is stored under it               *)

MismatchSetItem ==
    \E k \in SetKeys, i \in Indices, val \in Values :
        /\ Entry(store, k).kind = "set"
        /\ Call("setitem", <<PyStr(k), PyInt(i), val>>, RedisList___setitem__(store, k, i, val))

MismatchInsert ==
    \E k \in SetKeys, i \in Indices, val \in Values :
        /\ Entry(store, k).kind = "set"
        /\ Call("insert", <<PyStr(k), PyInt(i), val>>, RedisList_insert(store, k, i, val))

NextMismatch ==
    \/ SetAdd
    \/ SetDiscard
    \/ MismatchSetItem
    \/ MismatchInsert

SpecMismatch == Init /\ [][NextMismatch]_vars

\* C20: a sequence operation, set(index, value) and insert(index, value) in
\* particular, applied to a key that holds a set raises TypeError, never
\* IndexError or ValueError, and leaves the key as it was.
C20_MismatchIsTypeError ==
    (last.op \in {"setitem", "insert"} /\ Entry(last.pre, last.args[1].v).kind = "set") =>
        /\ last.exc = "TypeError"
        /\ store = last.pre

====
